---- MODULE Spec2Model ----
(***************************************************************************)
(* The AssemblyScript runtime (std/assembly/runtime.ts): the common object *)
(* header, size classing (adjust), allocate / reallocate / discard /       *)
(* register / makeArray over a byte-addressed linear memory, and the       *)
(* collector hooks they call.                                              *)
(*                                                                         *)
(* Linear memory is modelled byte by byte.  32-bit header fields are       *)
(* stored little-endian in four bytes, as WebAssembly stores them.         *)
(***************************************************************************)
EXTENDS Integers, Sequences, FiniteSets, TLC

VARIABLES
    mem,                \* linear memory: address -> byte
    offset,             \* backing allocator: arena bump pointer
    carved,             \* backing allocator: block address -> block size, for every block handed out so far
    freed,              \* backing allocator: addresses of blocks given back with free
    live,               \* references the mutator holds (returned and neither discarded nor superseded)
    gcRegistered,       \* stub collector: references its register hook has received
    gcLinks,            \* stub collector: <<child, parent>> pairs its link hook has received
    events,             \* calls the last operation made to the backing allocator, the collector and abort
    lastOp,             \* the last operation: name, arguments, result
    aborted,            \* the instance has trapped (assertion failure)
    steps,              \* number of calls into the runtime so far
    atCall,             \* memory and the allocator's books as the last step found them
    ASC_NO_ASSERT,      \* build flag: assertions compiled out
    collector,          \* build: a collector implementing the __ref_* hooks is compiled in
    adjIn,              \* input of the size-class computation under SpecAdjust
    adjOut              \* its result (0 before it has run)

vars == <<mem, offset, carved, freed, live, gcRegistered, gcLinks, events, lastOp,
          aborted, steps, atCall, ASC_NO_ASSERT, collector, adjIn, adjOut>>

build == <<ASC_NO_ASSERT, collector>>

\* isDefined(__ref_collect)
refCollectDefined == collector
\* isDefined(__ref_register)
refRegisterDefined == collector
\* isDefined(__ref_link)
refLinkDefined == collector

-----------------------------------------------------------------------------
(* Bounds of the model *)

\* largest payload size within the smallest non-empty size class the mutator asks for
MaxPayload == 2
\* number of blocks the arena can hand out before it is exhausted
MaxBlocks == 2
\* largest capacity passed to makeArray
MaxCapacity == 1
\* number of calls into the runtime in one run
MaxSteps == 3
\* the size-class computation is tried on every payload size up to this one, and around every power of two
MaxSmallPayload == 40

-----------------------------------------------------------------------------
(* Program constants *)

\* util/allocator: AL_MASK = (1 << 3) - 1
AL_MASK == 7
\* util/allocator: MAX_SIZE_32 = 1 << 30
MAX_SIZE_32 == 1073741824
\* the arena refuses requests above 1 GiB
ARENA_MAX == 1073741824

\* offsetof<HEADER>(): classId u32, payloadSize u32, reserved1 usize, reserved2 usize
HEADER_FULL == 16
\* offsetof<HEADER>("reserved1")
HEADER_HALF == 8

\* x & ~AL_MASK after adding AL_MASK: round up to the alignment
AlignUp(x) == ((x + AL_MASK) \div (AL_MASK + 1)) * (AL_MASK + 1)

HeaderSizeOf(gc) == IF gc THEN AlignUp(HEADER_FULL) ELSE AlignUp(HEADER_HALF)

HEADER_SIZE == HeaderSizeOf(refCollectDefined)

\* 0xA55E4B17, as the four bytes a little-endian i32.store writes
HEADER_MAGIC == <<23, 75, 94, 165>>

MaxByteLengthOf(gc) == MAX_SIZE_32 - HeaderSizeOf(gc)

MAX_BYTELENGTH == MaxByteLengthOf(refCollectDefined)

\* offsetof<i32[]>(): data, dataStart, dataLength, length_
ARRAY_SIZE == 16
\* offsetof<i32[]>("length_")
LENGTH_OFFSET == 12
\* field offsets of ArrayBufferView
DATA_OFFSET == 0
DATASTART_OFFSET == 4
DATALENGTH_OFFSET == 8

\* class ids the mutator registers objects under (exports test: Car = 1)
ClassIds == {1}
\* class ids of the arrays makeArray builds
ArrayIds == {3}
\* class id of the static string in the data segment
STRING_ID == 2
\* classId<ArrayBuffer>()
ARRAYBUFFER_ID == 4

-----------------------------------------------------------------------------
(* 32-bit helpers *)

RECURSIVE BitLen(_)
BitLen(x) == IF x = 0 THEN 0 ELSE 1 + BitLen(x \div 2)

\* clz<u32>(x)
Clz32(x) == 32 - BitLen(x)

\* WebAssembly i32.shl of 1: the shift count is taken modulo 32
Shl1(n) == 2 ^ (n % 32)

\* A u32 below 2^31 as its four little-endian bytes
U32Bytes(n) == <<n % 256, (n \div 256) % 256, (n \div 65536) % 256, (n \div 16777216) % 256>>

\* The u32 four little-endian bytes spell
BytesU32(b) == b[1] + 256 * b[2] + 65536 * b[3] + 16777216 * b[4]

Load4(m, a) == <<m[a], m[a + 1], m[a + 2], m[a + 3]>>

\* a 32-bit store, byte by byte
Store4(m, a, b) == [m EXCEPT ![a] = b[1], ![a + 1] = b[2], ![a + 2] = b[3], ![a + 3] = b[4]]

\* bytes i .. n-1 of a copy from the snapshot m0
RECURSIVE CopyFrom(_, _, _, _, _, _)
CopyFrom(m, m0, dst, src, i, n) ==
    IF i >= n THEN m ELSE CopyFrom([m EXCEPT ![dst + i] = m0[src + i]], m0, dst, src, i + 1, n)

\* memory.copy(dst, src, n): memmove semantics, the source is read as it was
MemCopy(m, dst, src, n) == CopyFrom(m, m, dst, src, 0, n)

\* memory.fill(dst, c, n)
RECURSIVE MemFill(_, _, _, _)
MemFill(m, dst, c, n) == IF n <= 0 THEN m ELSE MemFill([m EXCEPT ![dst] = c], dst + 1, c, n - 1)

-----------------------------------------------------------------------------
(* Memory layout *)

\* the data segment starts at address 8 (address 0 is null)
STATIC_BASE == 8
\* payload bytes of the static string
STATIC_PAYLOAD == 2

STATIC_REF == STATIC_BASE + HEADER_SIZE

HeapBaseOf(gc) == AlignUp(STATIC_BASE + HeaderSizeOf(gc) + STATIC_PAYLOAD)

HEAP_BASE == HeapBaseOf(refCollectDefined)

\* adjust without the "- 1": an exact power of two is rounded up to the next one
AdjustOf_NoDecrement(gc, payloadSize) == Shl1(32 - Clz32(payloadSize + HeaderSizeOf(gc)))

\* runtime.adjust for a given header size
AdjustOf(gc, payloadSize) == Shl1(32 - Clz32(payloadSize + HeaderSizeOf(gc) - 1))

adjust(payloadSize) == AdjustOf(refCollectDefined, payloadSize)

Max(a, b) == IF a >= b THEN a ELSE b

\* the largest block the bounded mutator can ask for
MaxBlockSize(gc) ==
    AdjustOf(gc, Max(Max(MaxPayload, HeaderSizeOf(gc) + 1), Max(MaxCapacity * 2, ARRAY_SIZE)))

\* payload sizes the mutator asks for: none, one byte, the largest small one
\* and the first of the next size class
PayloadSizes == {0, 1, MaxPayload, HEADER_SIZE + 1}

\* capacities makeArray is called with: the empty array and the largest
Capacities == {0, MaxCapacity}

\* element alignments makeArray is called with: bytes and 16-bit elements
AlignLog2s == {0, 1}

\* linear memory ends where the arena is exhausted
MemSizeOf(gc) == HeapBaseOf(gc) + MaxBlocks * MaxBlockSize(gc)

MemSize == MemSizeOf(refCollectDefined)

\* byte the allocator's bookkeeping leaves in a block it has taken back
JUNK == 238

-----------------------------------------------------------------------------
(* The machine state operations transform: s = [mem, offset, carved, freed, reg, links, ev, ab] *)

Event(k, a, b) == [k |-> k, a |-> a, b |-> b]

Emit(s, k, a, b) == [s EXCEPT !.ev = Append(@, Event(k, a, b))]

\* abort(): a failed assertion traps the instance, later statements do not run
Trap(s) == [Emit(s, "abort", 0, 0) EXCEPT !.ab = TRUE]

\* unreachable: the arena cannot grow memory any further
OutOfMemory(s) == [Emit(s, "unreachable", 0, 0) EXCEPT !.ab = TRUE]

\* arena __mem_allocate: bump the offset, 8-byte aligned, at least one byte
ArenaAllocate(s, size) ==
    LET ptr == s.offset
        newPtr == AlignUp(ptr + Max(size, 1))
    IN  IF size > ARENA_MAX \/ newPtr > MemSize \/ Cardinality(DOMAIN s.carved) >= MaxBlocks
        THEN [s |-> OutOfMemory(s), ret |-> 0]
        ELSE [s |-> Emit([s EXCEPT !.offset = newPtr,
                                   !.carved = [a \in DOMAIN s.carved \cup {ptr} |->
                                                 IF a = ptr THEN newPtr - ptr ELSE s.carved[a]]],
                         "allocate", ptr, size),
              ret |-> ptr]

\* a pooling allocator hands a freed block of the same size out again; its
\* bytes are what the previous owner left or what the free list wrote there
ReuseAllocate(s, size, c) ==
    [s |-> Emit([s EXCEPT !.freed = @ \ {c.addr},
                          !.mem = IF c.junk
                                  THEN MemFill(s.mem, c.addr, JUNK, s.carved[c.addr])
                                  ELSE s.mem],
                "allocate", c.addr, size),
     ret |-> c.addr]

\* the outcomes memory.allocate(size) can have in state s
AllocChoices(s, size) ==
    {[reuse |-> FALSE, addr |-> 0, junk |-> FALSE]}
      \cup {[reuse |-> TRUE, addr |-> a, junk |-> j] :
            a \in {x \in s.freed : s.carved[x] = AlignUp(Max(size, 1))}, j \in BOOLEAN}

\* memory.allocate
MemAllocate(s, size, c) == IF c.reuse THEN ReuseAllocate(s, size, c) ELSE ArenaAllocate(s, size)

\* memory.free: the block goes back to the allocator; an address that is no
\* outstanding block is undefined behaviour: ignored (arena) or a trap
MemFree(s, addr, c) ==
    IF addr \in DOMAIN s.carved /\ addr \notin s.freed
    THEN Emit([s EXCEPT !.freed = @ \cup {addr}], "free", addr, 0)
    ELSE IF c.trap THEN Trap(Emit(s, "free", addr, 0)) ELSE Emit(s, "free", addr, 0)

\* stub collector: __ref_register(ref)
RefRegister(s, ref) == Emit([s EXCEPT !.reg = @ \cup {ref}], "register", ref, 0)

\* stub collector: __ref_link(ref, parentRef)
RefLink(s, ref, parentRef) == Emit([s EXCEPT !.links = @ \cup {<<ref, parentRef>>}], "link", ref, parentRef)

-----------------------------------------------------------------------------
(* Header access *)

CLASSID_OFFSET == 0
PAYLOADSIZE_OFFSET == 4
RESERVED1_OFFSET == 8
RESERVED2_OFFSET == 12

\* header.classId, as stored bytes
ClassIdAt(m, header) == Load4(m, header + CLASSID_OFFSET)

\* header.payloadSize
PayloadSizeAt(m, header) == BytesU32(Load4(m, header + PAYLOADSIZE_OFFSET))

\* allocate that leaves the reserved fields as it found them
ClearReserved_Skip(m, header) == m

\* if (isDefined(__ref_collect)) { header.reserved1 = 0; header.reserved2 = 0; }
ClearReserved(m, header) ==
    IF refCollectDefined
    THEN Store4(Store4(m, header + RESERVED1_OFFSET, U32Bytes(0)), header + RESERVED2_OFFSET, U32Bytes(0))
    ELSE m

\* header.classId = HEADER_MAGIC; header.payloadSize = payloadSize; reserved fields
InitHeader(m, header, payloadSize) ==
    ClearReserved(Store4(Store4(m, header + CLASSID_OFFSET, HEADER_MAGIC),
                         header + PAYLOADSIZE_OFFSET, U32Bytes(payloadSize)),
                  header)

\* assert(cond): traps in checked builds, compiled out with ASC_NO_ASSERT
AssertFails(cond) == ~ASC_NO_ASSERT /\ ~cond

-----------------------------------------------------------------------------
(* runtime.allocate / reallocate / discard / register *)

allocate(s, payloadSize, c) ==
    LET r == MemAllocate(s, adjust(payloadSize), c)
        header == r.ret
    IN  IF r.s.ab
        THEN [s |-> r.s, ret |-> 0]
        ELSE [s |-> [r.s EXCEPT !.mem = InitHeader(@, header, payloadSize)],
              ret |-> header + HEADER_SIZE]

\* a move decision that takes every heap block to be large enough
MustMove_StaticOnly(ref, payloadSize, newAdjustedSize) == ~(ref > HEAP_BASE)

\* a move decision that takes a static object for a heap object
MustMove_IgnoreStatic(ref, payloadSize, newAdjustedSize) == adjust(payloadSize) < newAdjustedSize

\* the move branch decision: select(adjust(payloadSize), 0, ref > HEAP_BASE) < newAdjustedSize
MustMove(ref, payloadSize, newAdjustedSize) ==
    (IF ref > HEAP_BASE THEN adjust(payloadSize) ELSE 0) < newAdjustedSize

\* a move that carries the header over but not the payload
MoveInto_NoCopy(m, header, newHeader, payloadSize, newPayloadSize) ==
    MemFill(ClearReserved(Store4(m, newHeader + CLASSID_OFFSET, ClassIdAt(m, header)), newHeader),
            newHeader + HEADER_SIZE + payloadSize, 0, newPayloadSize - payloadSize)

\* a move whose new header starts out as allocate leaves one: classId MAGIC
MoveInto_MagicClassId(m, header, newHeader, payloadSize, newPayloadSize) ==
    LET ref == header + HEADER_SIZE
        newRef == newHeader + HEADER_SIZE
        m1 == ClearReserved(Store4(m, newHeader + CLASSID_OFFSET, HEADER_MAGIC), newHeader)
        m2 == MemCopy(m1, newRef, ref, payloadSize)
    IN  MemFill(m2, newRef + payloadSize, 0, newPayloadSize - payloadSize)

\* the new block's header and payload: classId copied, reserved cleared, payload copied, tail zeroed
MoveInto(m, header, newHeader, payloadSize, newPayloadSize) ==
    LET ref == header + HEADER_SIZE
        newRef == newHeader + HEADER_SIZE
        m1 == ClearReserved(Store4(m, newHeader + CLASSID_OFFSET, ClassIdAt(m, header)), newHeader)
        m2 == MemCopy(m1, newRef, ref, payloadSize)
    IN  MemFill(m2, newRef + payloadSize, 0, newPayloadSize - payloadSize)

\* a move that frees the old block whatever its classId
ReleaseOld_AlwaysFree(s, ref, fc) == MemFree(s, ref - HEADER_SIZE, fc)

\* a move that frees a scratch object's old block without asking where it lies
ReleaseOld_NoStaticCheck(s, ref, fc) ==
    LET header == ref - HEADER_SIZE
    IN  IF ClassIdAt(s.mem, header) = HEADER_MAGIC
        THEN MemFree(s, header, fc)
        ELSE IF refCollectDefined THEN RefRegister(s, ref) ELSE s

\* a move that keeps the old block of a scratch object
ReleaseOld_NeverFree(s, ref, fc) ==
    LET header == ref - HEADER_SIZE
    IN  IF ClassIdAt(s.mem, header) = HEADER_MAGIC
        THEN IF AssertFails(ref > HEAP_BASE) THEN Trap(s) ELSE s
        ELSE IF refCollectDefined THEN RefRegister(s, ref) ELSE s

\* what happens to the old object after a move: freed if still scratch, else registered again
ReleaseOld(s, ref, fc) ==
    LET header == ref - HEADER_SIZE
    IN  IF ClassIdAt(s.mem, header) = HEADER_MAGIC
        THEN IF AssertFails(ref > HEAP_BASE) THEN Trap(s) ELSE MemFree(s, header, fc)
        ELSE IF refCollectDefined THEN RefRegister(s, ref) ELSE s

\* header.payloadSize = newPayloadSize
SetPayloadSize(m, header, newPayloadSize) == Store4(m, header + PAYLOADSIZE_OFFSET, U32Bytes(newPayloadSize))

\* in-place growth that leaves the exposed tail as it is
GrowInPlace_NoFill(m, ref, payloadSize, newPayloadSize) == m

\* in-place growth: memory.fill(ref + payloadSize, 0, newPayloadSize - payloadSize)
GrowInPlace(m, ref, payloadSize, newPayloadSize) == MemFill(m, ref + payloadSize, 0, newPayloadSize - payloadSize)

reallocate(s, ref, newPayloadSize, c, fc) ==
    LET header == ref - HEADER_SIZE
        payloadSize == PayloadSizeAt(s.mem, header)
    IN  IF payloadSize < newPayloadSize
        THEN LET newAdjustedSize == adjust(newPayloadSize)
             IN  IF MustMove(ref, payloadSize, newAdjustedSize)
                 THEN LET r == MemAllocate(s, newAdjustedSize, c)
                          newHeader == r.ret
                          newRef == newHeader + HEADER_SIZE
                          s1 == [r.s EXCEPT !.mem = MoveInto(@, header, newHeader, payloadSize, newPayloadSize)]
                          s2 == ReleaseOld(s1, ref, fc)
                      IN  IF r.s.ab THEN [s |-> r.s, ret |-> 0]
                          ELSE IF s2.ab THEN [s |-> s2, ret |-> 0]
                          ELSE [s |-> [s2 EXCEPT !.mem = SetPayloadSize(@, newHeader, newPayloadSize)],
                                ret |-> newRef]
                 ELSE [s |-> [s EXCEPT !.mem = SetPayloadSize(GrowInPlace(@, ref, payloadSize, newPayloadSize),
                                                              header, newPayloadSize)],
                       ret |-> ref]
        ELSE [s |-> [s EXCEPT !.mem = SetPayloadSize(@, header, newPayloadSize)], ret |-> ref]

\* discard that does not look at the classId
discard_NoClassCheck(s, ref, fc) ==
    IF AssertFails(ref > HEAP_BASE) THEN Trap(s) ELSE MemFree(s, ref - HEADER_SIZE, fc)

\* discard that clears the block it frees, counting the block's size from ref
discard_Scrub(s, ref, fc) ==
    LET header == ref - HEADER_SIZE
    IN  IF AssertFails(ref > HEAP_BASE) THEN Trap(s)
        ELSE IF AssertFails(ClassIdAt(s.mem, header) = HEADER_MAGIC) THEN Trap(s)
        ELSE MemFree([s EXCEPT !.mem = MemFill(@, ref, 0, adjust(PayloadSizeAt(s.mem, header)))], header, fc)

discard(s, ref, fc) ==
    LET header == ref - HEADER_SIZE
    IN  IF AssertFails(ref > HEAP_BASE) THEN Trap(s)
        ELSE IF AssertFails(ClassIdAt(s.mem, header) = HEADER_MAGIC) THEN Trap(s)
        ELSE MemFree(s, header, fc)

\* if (isDefined(__ref_register)) __ref_register(ref)
NotifyRegister(s, ref) == IF refRegisterDefined THEN RefRegister(s, ref) ELSE s

\* register that does not look at the classId already stored
register_NoClassCheck(s, ref, classId) ==
    IF AssertFails(ref > HEAP_BASE) THEN [s |-> Trap(s), ret |-> 0]
    ELSE [s |-> NotifyRegister([s EXCEPT !.mem = Store4(@, ref - HEADER_SIZE + CLASSID_OFFSET, U32Bytes(classId))], ref),
          ret |-> ref]

register(s, ref, classId) ==
    LET header == ref - HEADER_SIZE
    IN  IF AssertFails(ref > HEAP_BASE) THEN [s |-> Trap(s), ret |-> 0]
        ELSE IF AssertFails(ClassIdAt(s.mem, header) = HEADER_MAGIC) THEN [s |-> Trap(s), ret |-> 0]
        ELSE [s |-> NotifyRegister([s EXCEPT !.mem = Store4(@, header + CLASSID_OFFSET, U32Bytes(classId))], ref),
              ret |-> ref]

-----------------------------------------------------------------------------
(* runtime.makeArray *)

\* <usize>capacity << alignLog2 (the bounded capacities never wrap)
ShiftLeft(capacity, alignLog2) == capacity * (2 ^ (alignLog2 % 32))

\* array.data = buffer: the managed field store, followed by the link the
\* compiler emits for it when a collector is present
LinkField(s, array, buffer) ==
    LET s1 == [s EXCEPT !.mem = Store4(@, array + DATA_OFFSET, U32Bytes(buffer))]
    IN  IF refLinkDefined THEN RefLink(s1, buffer, array) ELSE s1

\* a copy that takes capacity for the number of bytes
FillArray_CopyCapacity(m, array, buffer, bufferSize, capacity, source) ==
    LET m1 == Store4(m, array + DATASTART_OFFSET, U32Bytes(buffer))
        m2 == Store4(m1, array + DATALENGTH_OFFSET, U32Bytes(bufferSize))
        m3 == Store4(m2, array + LENGTH_OFFSET, U32Bytes(capacity))
    IN  IF source # 0 THEN MemCopy(m3, buffer, source, capacity) ELSE m3

\* dataStart, dataLength, length_ and the optional copy from source
FillArray(m, array, buffer, bufferSize, capacity, source) ==
    LET m1 == Store4(m, array + DATASTART_OFFSET, U32Bytes(buffer))
        m2 == Store4(m1, array + DATALENGTH_OFFSET, U32Bytes(bufferSize))
        m3 == Store4(m2, array + LENGTH_OFFSET, U32Bytes(capacity))
    IN  IF source # 0 THEN MemCopy(m3, buffer, source, bufferSize) ELSE m3

\* var array = runtime.register(runtime.allocate(offsetof<i32[]>()), cid)
NewArrayObject(s, cid, c) ==
    LET a == allocate(s, ARRAY_SIZE, c)
    IN  IF a.s.ab THEN a ELSE register(a.s, a.ret, cid)

\* a buffer that is allocated but never registered
NewBufferObject_NoRegister(s, bufferSize, c) == allocate(s, bufferSize, c)

\* var buffer = runtime.register(runtime.allocate(bufferSize), classId<ArrayBuffer>())
NewBufferObject(s, bufferSize, c) ==
    LET b == allocate(s, bufferSize, c)
    IN  IF b.s.ab THEN b ELSE register(b.s, b.ret, ARRAYBUFFER_ID)

\* the rest of makeArray once the array object exists
makeArrayBuffer(a, capacity, alignLog2, source, c2) ==
    LET bufferSize == ShiftLeft(capacity, alignLog2)
        b == NewBufferObject(a.s, bufferSize, c2)
        s1 == LinkField(b.s, a.ret, b.ret)
    IN  IF b.s.ab THEN b
        ELSE [s |-> [s1 EXCEPT !.mem = FillArray(@, a.ret, b.ret, bufferSize, capacity, source)],
              ret |-> a.ret]

makeArray(s, capacity, cid, alignLog2, source, c1, c2) ==
    LET a == NewArrayObject(s, cid, c1)
    IN  IF a.s.ab THEN a ELSE makeArrayBuffer(a, capacity, alignLog2, source, c2)

-----------------------------------------------------------------------------
(* The state machine *)

\* the machine state an operation starts from; the call log starts empty
S == [mem |-> mem, offset |-> offset, carved |-> carved, freed |-> freed,
      reg |-> gcRegistered, links |-> gcLinks, ev |-> <<>>, ab |-> FALSE]

\* what a step finds when it starts
Snapshot(m, cv, fr, lv) == [mem |-> m, carved |-> cv, freed |-> fr, live |-> lv]

Commit(s) ==
    /\ atCall' = Snapshot(mem, carved, freed, live)
    /\ mem' = s.mem
    /\ offset' = s.offset
    /\ carved' = s.carved
    /\ freed' = s.freed
    /\ gcRegistered' = s.reg
    /\ gcLinks' = s.links
    /\ events' = s.ev
    /\ aborted' = s.ab
    /\ steps' = steps + 1

Op(op, ref, arg, aux, ret) == [op |-> op, ref |-> ref, arg |-> arg, aux |-> aux, ret |-> ret]

\* the run stays within the modelled arena: no allocation found it exhausted
InArena(s) == \A i \in DOMAIN s.ev : s.ev[i].k # "unreachable"

\* references the mutator can pass: the ones it holds and the static string
Refs == live \cup {STATIC_REF}

\* the outcomes memory.free(addr) can have: one, unless addr is no outstanding block
FreeChoices(addr) ==
    IF addr \in DOMAIN carved /\ addr \notin freed
    THEN {[trap |-> FALSE]}
    ELSE {[trap |-> FALSE], [trap |-> TRUE]}

NoReuse == [reuse |-> FALSE, addr |-> 0, junk |-> FALSE]

\* the outcomes of the allocation reallocate(ref, n) makes, if it makes one
ReallocChoices(ref, n) ==
    LET payloadSize == PayloadSizeAt(mem, ref - HEADER_SIZE)
    IN  IF payloadSize < n /\ MustMove(ref, payloadSize, adjust(n))
        THEN AllocChoices(S, adjust(n))
        ELSE {NoReuse}

\* the data segment of the exports test, scaled: one static string with its header
StaticImage(gc) ==
    LET zero == [a \in 0 .. (MemSizeOf(gc) - 1) |-> 0]
        h == Store4(Store4(zero, STATIC_BASE + CLASSID_OFFSET, U32Bytes(STRING_ID)),
                    STATIC_BASE + PAYLOADSIZE_OFFSET, U32Bytes(STATIC_PAYLOAD))
    IN  [h EXCEPT ![STATIC_BASE + HeaderSizeOf(gc)] = 97]

\* the state after the start function, for a given build
InitBuild(noAssert) ==
    /\ ASC_NO_ASSERT = noAssert
    /\ collector \in BOOLEAN
    /\ mem = StaticImage(collector)
    /\ offset = HeapBaseOf(collector)
    /\ carved = << >>
    /\ freed = {}
    /\ live = {}
    /\ gcRegistered = {}
    /\ gcLinks = {}
    /\ events = << >>
    /\ lastOp = Op("none", 0, 0, 0, 0)
    /\ aborted = FALSE
    /\ steps = 0
    /\ atCall = Snapshot(mem, carved, freed, live)
    /\ adjIn = 0
    /\ adjOut = 0

\* checked builds: assertions compiled in
Init == InitBuild(FALSE)

\* unchecked builds: assertions compiled out
InitUnchecked == InitBuild(TRUE)

\* the instance has not trapped and the run is within its length bound
Running == ~aborted /\ steps < MaxSteps

Allocate ==
    /\ Running
    /\ \E n \in PayloadSizes : \E c \in AllocChoices(S, adjust(n)) :
         LET r == allocate(S, n, c)
         IN  /\ InArena(r.s)
             /\ Commit(r.s)
             /\ live' = IF r.s.ab THEN live ELSE live \cup {r.ret}
             /\ lastOp' = Op("allocate", 0, n, 0, r.ret)
    /\ UNCHANGED <<build, adjIn, adjOut>>

Reallocate ==
    /\ Running
    /\ \E ref \in Refs : \E n \in PayloadSizes :
       \E c \in ReallocChoices(ref, n) : \E fc \in FreeChoices(ref - HEADER_SIZE) :
         LET r == reallocate(S, ref, n, c, fc)
         IN  /\ InArena(r.s)
             /\ Commit(r.s)
             /\ live' = IF r.s.ab THEN live ELSE (live \ {ref}) \cup ({r.ret} \ {STATIC_REF})
             /\ lastOp' = Op("reallocate", ref, n, 0, r.ret)
    /\ UNCHANGED <<build, adjIn, adjOut>>

Discard ==
    /\ Running
    /\ \E ref \in Refs : \E fc \in FreeChoices(ref - HEADER_SIZE) :
         LET s == discard(S, ref, fc)
         IN  /\ Commit(s)
             /\ live' = IF s.ab THEN live ELSE live \ {ref}
             /\ lastOp' = Op("discard", ref, 0, 0, 0)
    /\ UNCHANGED <<build, adjIn, adjOut>>

Register ==
    /\ Running
    /\ \E ref \in Refs : \E cid \in ClassIds :
         LET r == register(S, ref, cid)
         IN  /\ Commit(r.s)
             /\ lastOp' = Op("register", ref, cid, 0, r.ret)
    /\ UNCHANGED <<live, build, adjIn, adjOut>>

\* sources makeArray can copy bufferSize bytes from: none, or static data at least that long
Sources(bufferSize) ==
    {0} \cup {r \in {STATIC_REF} : bufferSize > 0 /\ PayloadSizeAt(mem, r - HEADER_SIZE) >= bufferSize}

MakeArray ==
    /\ Running
    /\ \E capacity \in Capacities : \E alignLog2 \in AlignLog2s : \E cid \in ArrayIds :
       \E source \in Sources(ShiftLeft(capacity, alignLog2)) :
       \E c1 \in AllocChoices(S, adjust(ARRAY_SIZE)) :
         LET a == NewArrayObject(S, cid, c1)
         IN  /\ InArena(a.s)
             /\ \E c2 \in AllocChoices(a.s, adjust(ShiftLeft(capacity, alignLog2))) :
                  LET r == makeArray(S, capacity, cid, alignLog2, source, c1, c2)
                  IN  /\ InArena(r.s)
                      /\ Commit(r.s)
                      /\ live' = IF r.s.ab THEN live ELSE live \cup {r.ret}
                      /\ lastOp' = Op("makeArray", source, capacity, alignLog2, r.ret)
    /\ UNCHANGED <<build, adjIn, adjOut>>

\* the byte patterns the mutator stores
Patterns == {1}

\* byte i of pattern v
PatternByte(v, i) == 16 * v + i + 1

\* the mutator initialises the object the runtime has just returned (the field
\* stores of a generated constructor); a store is no call into the runtime and
\* does not count as a step of the run
Store ==
    /\ ~aborted
    /\ \E ref \in live \cap {lastOp.ret} : \E v \in Patterns :
         LET n == PayloadSizeAt(mem, ref - HEADER_SIZE)
         IN  /\ n > 0
             /\ mem' = [x \in DOMAIN mem |-> IF x >= ref /\ x < ref + n THEN PatternByte(v, x - ref) ELSE mem[x]]
             /\ lastOp' = Op("store", ref, v, 0, 0)
    /\ events' = << >>
    /\ atCall' = Snapshot(mem, carved, freed, live)
    /\ UNCHANGED <<offset, carved, freed, live, gcRegistered, gcLinks, aborted, steps, build, adjIn, adjOut>>

Next == Allocate \/ Reallocate \/ Discard \/ Register \/ MakeArray \/ Store

Spec == Init /\ [][Next]_vars

SpecUnchecked == InitUnchecked /\ [][Next]_vars

-----------------------------------------------------------------------------
(* reallocate on static data *)

\* the data segment with the static object's classId set to the given bytes
StaticImageWith(gc, classId) == Store4(StaticImage(gc), STATIC_BASE + CLASSID_OFFSET, classId)

\* classIds the header in the data segment is tried with: the string's id in
\* every build, and in checked builds also MAGIC, which reallocate asserts
\* no static object carries
StaticClassIds(noAssert) ==
    IF noAssert THEN {U32Bytes(STRING_ID)} ELSE {U32Bytes(STRING_ID), HEADER_MAGIC}

InitStatic ==
    /\ ASC_NO_ASSERT \in BOOLEAN
    /\ collector \in BOOLEAN
    /\ \E classId \in StaticClassIds(ASC_NO_ASSERT) : mem = StaticImageWith(collector, classId)
    /\ offset = HeapBaseOf(collector)
    /\ carved = << >>
    /\ freed = {}
    /\ live = {}
    /\ gcRegistered = {}
    /\ gcLinks = {}
    /\ events = << >>
    /\ lastOp = Op("none", 0, 0, 0, 0)
    /\ aborted = FALSE
    /\ steps = 0
    /\ atCall = Snapshot(mem, carved, freed, live)
    /\ adjIn = 0
    /\ adjOut = 0

\* a program that allocates, stores and reallocates
NextStatic == Allocate \/ Reallocate \/ Store

SpecStatic == InitStatic /\ [][NextStatic]_vars

-----------------------------------------------------------------------------
(* The collector interface (std/assembly/gc.ts) *)

\* isDefined(__gc_register), isDefined(__gc_link), isDefined(__gc_mark), isDefined(__gc_collect)
gcRegisterDefined == collector
gcLinkDefined == collector
gcMarkDefined == collector
gcCollectDefined == collector

\* gc.implemented
gc_implemented == gcRegisterDefined

\* ERROR(message): the diagnostic is fatal, nothing after it runs
Fatal(s, message) == [Emit(s, "ERROR", message, 0) EXCEPT !.ab = TRUE]

\* WARNING(message): the diagnostic is reported and execution goes on
Warn(s, message) == Emit(s, "WARNING", message, 0)

\* stub collector: __gc_mark(ref)
GcMarkHook(s, ref) == Emit(s, "mark", ref, 0)

\* stub collector: __gc_collect()
GcCollectHook(s) == Emit(s, "collect", 0, 0)

gc_register(s, ref) ==
    IF gcRegisterDefined THEN RefRegister(s, ref) ELSE Fatal(s, "missing implementation: gc.register")

gc_link(s, ref, parentRef) ==
    IF gcLinkDefined THEN RefLink(s, ref, parentRef) ELSE Fatal(s, "missing implementation: gc.link")

\* a mark that does nothing when no collector implements it
gc_mark_Silent(s, ref) == IF gcMarkDefined THEN GcMarkHook(s, ref) ELSE s

gc_mark(s, ref) ==
    IF gcMarkDefined THEN GcMarkHook(s, ref) ELSE Fatal(s, "missing implementation: gc.mark")

gc_collect(s) ==
    IF gcCollectDefined THEN GcCollectHook(s) ELSE Warn(s, "missing implementation: gc.collect")

GcRegister ==
    /\ Running
    /\ \E ref \in Refs :
         /\ Commit(gc_register(S, ref))
         /\ lastOp' = Op("gc.register", ref, 0, 0, 0)
    /\ UNCHANGED <<live, build, adjIn, adjOut>>

GcLink ==
    /\ Running
    /\ \E ref \in Refs : \E parentRef \in Refs \ {ref} :
         /\ Commit(gc_link(S, ref, parentRef))
         /\ lastOp' = Op("gc.link", ref, parentRef, 0, 0)
    /\ UNCHANGED <<live, build, adjIn, adjOut>>

GcMark ==
    /\ Running
    /\ \E ref \in Refs :
         /\ Commit(gc_mark(S, ref))
         /\ lastOp' = Op("gc.mark", ref, 0, 0, 0)
    /\ UNCHANGED <<live, build, adjIn, adjOut>>

GcCollect ==
    /\ Running
    /\ Commit(gc_collect(S))
    /\ lastOp' = Op("gc.collect", 0, 0, 0, 0)
    /\ UNCHANGED <<live, build, adjIn, adjOut>>

\* a program that allocates objects and calls the collector interface directly
NextGc == Allocate \/ Store \/ GcRegister \/ GcLink \/ GcMark \/ GcCollect

SpecGc == Init /\ [][NextGc]_vars

-----------------------------------------------------------------------------
(* The size-class computation on its own *)

\* payload sizes around every block size 2^k, within [0, MAX_BYTELENGTH]
EdgePayloads(gc) ==
    {p \in {(2 ^ k) - HeaderSizeOf(gc) + d : k \in 4 .. 30, d \in {-1, 0, 1}} :
        p >= 0 /\ p <= MaxByteLengthOf(gc)}

AdjustInputs(gc) == (0 .. MaxSmallPayload) \cup EdgePayloads(gc)

InitAdjust ==
    /\ ASC_NO_ASSERT \in BOOLEAN
    /\ collector \in BOOLEAN
    /\ mem = StaticImage(collector)
    /\ offset = HeapBaseOf(collector)
    /\ carved = << >>
    /\ freed = {}
    /\ live = {}
    /\ gcRegistered = {}
    /\ gcLinks = {}
    /\ events = << >>
    /\ lastOp = Op("none", 0, 0, 0, 0)
    /\ aborted = FALSE
    /\ steps = 0
    /\ atCall = Snapshot(mem, carved, freed, live)
    /\ adjIn \in AdjustInputs(collector)
    /\ adjOut = 0

Adjust ==
    /\ adjOut = 0
    /\ adjOut' = adjust(adjIn)
    /\ UNCHANGED <<mem, offset, carved, freed, live, gcRegistered, gcLinks, events, lastOp,
                   aborted, steps, atCall, build, adjIn>>

NextAdjust == Adjust

SpecAdjust == InitAdjust /\ [][NextAdjust]_vars

-----------------------------------------------------------------------------
(* Vocabulary of the properties *)

\* the step just taken was the operation op
Did(op) == lastOp.op = op

\* the operation op is being performed by this step
Doing(op) == steps' = steps + 1 /\ lastOp'.op = op

\* the smallest power of two that holds x bytes
RECURSIVE PowerOfTwoFrom(_, _)
PowerOfTwoFrom(p, x) == IF p >= x THEN p ELSE PowerOfTwoFrom(2 * p, x)

\* the size class of a payload: smallest power of two >= payloadSize + header size
SizeClass(payloadSize) == PowerOfTwoFrom(1, payloadSize + HEADER_SIZE)

IsPowerOfTwo(x) == \E k \in 0 .. 30 : x = 2 ^ k

\* lifecycle state of the object at reference r, given memory and the allocator's books
ObjState(m, cv, fr, r) ==
    IF (r - HEADER_SIZE) \notin DOMAIN cv THEN "UNALLOCATED"
    ELSE IF (r - HEADER_SIZE) \in fr THEN "FREED"
    ELSE IF ClassIdAt(m, r - HEADER_SIZE) = HEADER_MAGIC THEN "SCRATCH"
    ELSE "TRACKED"

\* the calls of kind k in a call log
CallsOf(ev, k) == SelectSeq(ev, LAMBDA e : e.k = k)

\* the collector hook calls in a call log
HookCalls(ev) == SelectSeq(ev, LAMBDA e : e.k \in {"register", "link"})

-----------------------------------------------------------------------------
(* C1 *)

\* the reference the object at r is known by after this step
Follow(r) == IF lastOp'.op = "reallocate" /\ lastOp'.ref = r /\ ~aborted' THEN lastOp'.ret ELSE r

\* the lifecycle edges of the core, for the object the operation was called on
LifecycleEdge(pre, post, r) ==
    \/ pre = post
    \/ Doing("register") /\ lastOp'.ref = r /\ pre = "SCRATCH" /\ post = "TRACKED"
    \/ Doing("discard") /\ lastOp'.ref = r /\ pre = "SCRATCH" /\ post = "FREED"

\* C1: in checked builds every object the mutator holds moves only along
\* SCRATCH -> TRACKED (register) and SCRATCH -> FREED (discard), a new object
\* comes out of allocate as SCRATCH from an unallocated block, and a block
\* whose classId register has set keeps that classId and is never freed.
C1_Lifecycle ==
    [][~ASC_NO_ASSERT =>
        /\ \A r \in live :
             LifecycleEdge(ObjState(mem, carved, freed, r), ObjState(mem', carved', freed', Follow(r)), r)
        /\ (Doing("allocate") /\ ~aborted') =>
             /\ ObjState(mem, carved, freed, lastOp'.ret) \in {"UNALLOCATED", "FREED"}
             /\ ObjState(mem', carved', freed', lastOp'.ret) = "SCRATCH"
        /\ \A b \in DOMAIN carved :
             ObjState(mem, carved, freed, b + HEADER_SIZE) = "TRACKED" =>
                /\ b \notin freed'
                /\ ClassIdAt(mem', b) = ClassIdAt(mem, b)]_vars

\* a registered object has been moved by reallocate in a checked build
C1_Witness ==
    /\ ~ASC_NO_ASSERT /\ Did("reallocate") /\ ~aborted
    /\ lastOp.ref > HEAP_BASE /\ lastOp.ret # lastOp.ref
    /\ ObjState(mem, carved, freed, lastOp.ref) = "TRACKED"
    /\ ObjState(mem, carved, freed, lastOp.ret) = "TRACKED"

-----------------------------------------------------------------------------
(* C2 *)

\* C2: allocate(n) makes exactly one request to the backing allocator, for
\* SizeClass(n) bytes, returns the block address plus HEADER_SIZE, and leaves
\* classId = MAGIC, payloadSize = n and, with a collector, both reserved fields zero.
C2_AllocatePostcondition ==
    (Did("allocate") /\ ~aborted) =>
        LET header == lastOp.ret - HEADER_SIZE
        IN  /\ events = <<Event("allocate", header, SizeClass(lastOp.arg))>>
            /\ ClassIdAt(mem, header) = HEADER_MAGIC
            /\ PayloadSizeAt(mem, header) = lastOp.arg
            /\ refCollectDefined =>
                 /\ Load4(mem, header + RESERVED1_OFFSET) = <<0, 0, 0, 0>>
                 /\ Load4(mem, header + RESERVED2_OFFSET) = <<0, 0, 0, 0>>

\* allocate has returned an object of the larger size class, with a collector,
\* in a block that was used before and came back with every byte overwritten
C2_Witness ==
    /\ Did("allocate") /\ ~aborted /\ refCollectDefined
    /\ lastOp.arg = HEADER_SIZE + 1
    /\ \A i \in 0 .. (lastOp.arg - 1) : mem[lastOp.ret + i] = JUNK

-----------------------------------------------------------------------------
(* C3 *)

\* C3: for every payload size in [0, MAX_BYTELENGTH] and both header sizes,
\* adjust gives a power of two that is at least payloadSize + HEADER_SIZE and
\* less than twice that.
C3_AdjustIsSizeClass ==
    adjOut # 0 =>
        /\ IsPowerOfTwo(adjOut)
        /\ adjOut >= adjIn + HEADER_SIZE
        /\ adjOut - (adjIn + HEADER_SIZE) < adjIn + HEADER_SIZE

\* adjust has run on the largest payload, MAX_BYTELENGTH
C3_Witness == adjOut # 0 /\ adjIn = MAX_BYTELENGTH /\ adjOut = MAX_SIZE_32

-----------------------------------------------------------------------------
(* C4 *)

\* C4: in checked builds register on a heap object whose classId is already
\* set aborts, leaves the classId as it was and does not call the collector's
\* register hook.
C4_SecondRegisterRejected ==
    [][(~ASC_NO_ASSERT /\ Doing("register") /\ lastOp'.ref > HEAP_BASE
          /\ ClassIdAt(mem, lastOp'.ref - HEADER_SIZE) # HEADER_MAGIC) =>
        /\ aborted'
        /\ ClassIdAt(mem', lastOp'.ref - HEADER_SIZE) = ClassIdAt(mem, lastOp'.ref - HEADER_SIZE)
        /\ CallsOf(events', "register") = << >>
        /\ gcRegistered' = gcRegistered]_vars

\* a second register on an object the collector already knows has aborted
C4_Witness ==
    /\ ~ASC_NO_ASSERT /\ Did("register") /\ aborted
    /\ lastOp.ref > HEAP_BASE
    /\ lastOp.ref \in gcRegistered
    /\ ClassIdAt(mem, lastOp.ref - HEADER_SIZE) = U32Bytes(1)

-----------------------------------------------------------------------------
(* C5 *)

\* C5: in checked builds discard on an object whose classId is not MAGIC
\* aborts without calling free; discard on a scratch heap object calls free
\* once, on ref - HEADER_SIZE, and that block is freed.
C5_DiscardChecksClassId ==
    [][(~ASC_NO_ASSERT /\ Doing("discard")) =>
        LET header == lastOp'.ref - HEADER_SIZE
        IN  /\ ClassIdAt(mem, header) # HEADER_MAGIC =>
                 /\ aborted'
                 /\ CallsOf(events', "free") = << >>
                 /\ freed' = freed
            /\ (ClassIdAt(mem, header) = HEADER_MAGIC /\ lastOp'.ref > HEAP_BASE) =>
                 /\ ~aborted'
                 /\ events' = <<Event("free", header, 0)>>
                 /\ freed' = freed \cup {header}]_vars

\* discard on a registered heap object has aborted
C5_Witness ==
    /\ ~ASC_NO_ASSERT /\ Did("discard") /\ aborted
    /\ lastOp.ref > HEAP_BASE
    /\ ObjState(mem, carved, freed, lastOp.ref) = "TRACKED"

-----------------------------------------------------------------------------
(* C6 *)

\* the payload bytes [from, to) at reference r in memory m
Bytes(m, r, from, to) == [i \in from .. (to - 1) |-> m[r + i]]

\* C6: a reallocate that grows an object from n to n2 > n bytes returns a
\* reference whose bytes [0, n) are the old bytes [0, n) and whose bytes
\* [n, n2) are zero, in place or moved.
C6_GrowRoundTrip ==
    [][(Doing("reallocate") /\ ~aborted') =>
        LET ref == lastOp'.ref
            n == PayloadSizeAt(mem, ref - HEADER_SIZE)
            n2 == lastOp'.arg
            r == lastOp'.ret
        IN  n2 > n =>
              /\ Bytes(mem', r, 0, n) = Bytes(mem, ref, 0, n)
              /\ \A i \in n .. (n2 - 1) : mem'[r + i] = 0]_vars

\* a heap object holding stored bytes has grown into a fresh block
C6_Witness ==
    /\ Did("reallocate") /\ ~aborted
    /\ lastOp.ref > HEAP_BASE /\ lastOp.ret # lastOp.ref
    /\ lastOp.arg = HEADER_SIZE + 1
    /\ mem[lastOp.ret] = PatternByte(1, 0)
    /\ mem[lastOp.ret + lastOp.arg - 1] = 0

-----------------------------------------------------------------------------
(* C7 *)

\* C7: reallocate to a size no larger than the current one returns the same
\* reference with the kept bytes untouched, and a later reallocate back to a
\* size whose size class is the one the block was allocated with returns a
\* reference holding the bytes [0, n1) as they were before that call.
C7_ShrinkThenRegrow ==
    [][(Doing("reallocate") /\ ~aborted' /\ lastOp'.ref > HEAP_BASE) =>
        LET ref == lastOp'.ref
            n1 == PayloadSizeAt(mem, ref - HEADER_SIZE)
            n2 == lastOp'.arg
            r == lastOp'.ret
        IN  /\ n2 <= n1 => (r = ref /\ Bytes(mem', r, 0, n2) = Bytes(mem, ref, 0, n2))
            /\ (n2 > n1 /\ SizeClass(n2) = carved[ref - HEADER_SIZE]) =>
                  Bytes(mem', r, 0, n1) = Bytes(mem, ref, 0, n1)]_vars

\* an object shrunk below its block's size class, written, and grown back to
\* that size class has come out of the second reallocate with the written bytes
C7_Witness ==
    /\ Did("reallocate") /\ ~aborted
    /\ lastOp.ref > HEAP_BASE
    /\ carved[lastOp.ref - HEADER_SIZE] = SizeClass(lastOp.arg)
    /\ PayloadSizeAt(mem, lastOp.ref - HEADER_SIZE) < lastOp.arg
    /\ SizeClass(PayloadSizeAt(mem, lastOp.ref - HEADER_SIZE)) < carved[lastOp.ref - HEADER_SIZE]
    /\ PayloadSizeAt(mem, lastOp.ref - HEADER_SIZE) > 0
    /\ mem[lastOp.ret] = PatternByte(1, 0)

-----------------------------------------------------------------------------
(* C8 *)

\* C8: when a collector is compiled in and reallocate has moved a registered
\* object, the register hook was called with the reference reallocate returned.
C8_MovedObjectReRegistered ==
    (Did("reallocate") /\ ~aborted /\ refCollectDefined
       /\ lastOp.ret # lastOp.ref
       /\ ClassIdAt(mem, lastOp.ret - HEADER_SIZE) # HEADER_MAGIC) =>
        /\ CallsOf(events, "register") = <<Event("register", lastOp.ret, 0)>>
        /\ lastOp.ret \in gcRegistered

-----------------------------------------------------------------------------
(* C9 *)

\* the address the i-th allocation of the last operation returned
AllocatedAt(i) == CallsOf(events, "allocate")[i].a

\* C9: with a collector, makeArray calls the hooks exactly three times:
\* register(array), register(buffer), link(buffer, array), in this order.
C9_MakeArrayHookOrder ==
    (Did("makeArray") /\ ~aborted /\ refRegisterDefined) =>
        LET array == AllocatedAt(1) + HEADER_SIZE
            buffer == AllocatedAt(2) + HEADER_SIZE
        IN  /\ Len(CallsOf(events, "allocate")) = 2
            /\ array = lastOp.ret
            /\ HookCalls(events) = <<Event("register", array, 0),
                                     Event("register", buffer, 0),
                                     Event("link", buffer, array)>>

\* makeArray has returned with a collector compiled in
C9_Witness ==
    /\ Did("makeArray") /\ ~aborted /\ refRegisterDefined
    /\ lastOp.arg > 0
    /\ <<AllocatedAt(2) + HEADER_SIZE, lastOp.ret>> \in gcLinks

-----------------------------------------------------------------------------
(* C10 *)

\* positions in the call log of the calls of kind k
Positions(ev, k) == {i \in DOMAIN ev : ev[i].k = k}

\* C10: in makeArray every allocation comes before every register hook call,
\* and every link comes after the register calls of both its endpoints.
C10_AllocateBothBeforeRegister ==
    (Did("makeArray") /\ ~aborted /\ refRegisterDefined) =>
        /\ \A i \in Positions(events, "allocate") : \A j \in Positions(events, "register") : i < j
        /\ \A l \in Positions(events, "link") :
             /\ \E j \in Positions(events, "register") : j < l /\ events[j].a = events[l].a
             /\ \E j \in Positions(events, "register") : j < l /\ events[j].a = events[l].b

-----------------------------------------------------------------------------
(* C11 *)

\* the buffer the array at reference array points to (its data field)
BufferOf(m, array) == BytesU32(Load4(m, array + DATA_OFFSET))

\* the length_ field of the array at reference array
LengthOf(m, array) == BytesU32(Load4(m, array + LENGTH_OFFSET))

\* C11: makeArray(capacity, cid, alignLog2, 0) returns an array whose length
\* field is capacity and whose buffer has payloadSize capacity << alignLog2
\* with every payload byte zero, whatever calls came before.
C11_MakeArrayZeroed ==
    (Did("makeArray") /\ ~aborted /\ lastOp.ref = 0) =>
        LET array == lastOp.ret
            buffer == BufferOf(mem, array)
            bufferSize == ShiftLeft(lastOp.arg, lastOp.aux)
        IN  /\ LengthOf(mem, array) = lastOp.arg
            /\ PayloadSizeAt(mem, buffer - HEADER_SIZE) = bufferSize
            /\ \A i \in 0 .. (bufferSize - 1) : mem[buffer + i] = 0

-----------------------------------------------------------------------------
(* C12 *)

\* C12: makeArray with a source copies exactly capacity << alignLog2 bytes:
\* the buffer's payload equals the source bytes as they were at the call, the
\* source is unchanged, and in a fresh block nothing past the payload is written.
C12_MakeArrayCopiesSource ==
    (Did("makeArray") /\ ~aborted /\ lastOp.ref # 0) =>
        LET source == lastOp.ref
            buffer == BufferOf(mem, lastOp.ret)
            header == buffer - HEADER_SIZE
            bufferSize == ShiftLeft(lastOp.arg, lastOp.aux)
        IN  /\ PayloadSizeAt(mem, header) = bufferSize
            /\ Bytes(mem, buffer, 0, bufferSize) = Bytes(atCall.mem, source, 0, bufferSize)
            /\ Bytes(mem, source, 0, bufferSize) = Bytes(atCall.mem, source, 0, bufferSize)
            /\ header \notin DOMAIN atCall.carved =>
                 \A i \in bufferSize .. (carved[header] - HEADER_SIZE - 1) : mem[buffer + i] = 0

\* makeArray has copied the static string's bytes into a two-byte buffer
C12_Witness ==
    /\ Did("makeArray") /\ ~aborted /\ lastOp.ref = STATIC_REF
    /\ ShiftLeft(lastOp.arg, lastOp.aux) = STATIC_PAYLOAD
    /\ mem[BufferOf(mem, lastOp.ret)] = 97
    /\ BufferOf(mem, lastOp.ret) > HEAP_BASE

-----------------------------------------------------------------------------
(* C13 *)

\* the only call the last operation made is the call k(a, b)
OnlyCall(k, a, b) == events = <<Event(k, a, b)>>

\* the last operation ended in the fatal diagnostic message and in nothing else
FatalWith(message) == aborted /\ OnlyCall("ERROR", message, 0)

\* memory and the allocator's books are as the last step found them
StateUntouched ==
    /\ mem = atCall.mem
    /\ carved = atCall.carved
    /\ freed = atCall.freed
    /\ live = atCall.live

\* C13: without a collector gc.register, gc.link and gc.mark end in a fatal
\* error naming the missing hook and gc.collect only warns and leaves memory
\* and the allocator's state unchanged; with a collector each of the four
\* forwards exactly one call with the same arguments.
C13_GcHooks ==
    /\ Did("gc.register") =>
         IF gcRegisterDefined
         THEN ~aborted /\ OnlyCall("register", lastOp.ref, 0) /\ lastOp.ref \in gcRegistered
         ELSE FatalWith("missing implementation: gc.register") /\ gcRegistered = {}
    /\ Did("gc.link") =>
         IF gcLinkDefined
         THEN ~aborted /\ OnlyCall("link", lastOp.ref, lastOp.arg) /\ <<lastOp.ref, lastOp.arg>> \in gcLinks
         ELSE FatalWith("missing implementation: gc.link") /\ gcLinks = {}
    /\ Did("gc.mark") =>
         IF gcMarkDefined
         THEN ~aborted /\ OnlyCall("mark", lastOp.ref, 0)
         ELSE FatalWith("missing implementation: gc.mark")
    /\ Did("gc.collect") =>
         /\ ~aborted
         /\ StateUntouched
         /\ IF gcCollectDefined
            THEN OnlyCall("collect", 0, 0)
            ELSE OnlyCall("WARNING", "missing implementation: gc.collect", 0)
    /\ (Did("gc.register") \/ Did("gc.link") \/ Did("gc.mark")) => StateUntouched

\* gc.mark on a heap object has ended fatally for want of a collector
C13_Witness ==
    /\ Did("gc.mark") /\ ~gcMarkDefined /\ aborted
    /\ lastOp.ref > HEAP_BASE

-----------------------------------------------------------------------------
(* C14 *)

\* the blocks the last operation passed to the backing allocator's free
FreedByLastOp == {events[i].a : i \in Positions(events, "free")}

\* C14: in checked builds every block passed to free holds classId MAGIC, when
\* the operation starts and when it ends, and a reallocate that moves a
\* registered heap object makes no call to free and leaves the old block allocated.
C14_OnlyScratchFreed ==
    ~ASC_NO_ASSERT =>
        /\ \A b \in FreedByLastOp :
             /\ ClassIdAt(atCall.mem, b) = HEADER_MAGIC
             /\ ClassIdAt(mem, b) = HEADER_MAGIC
        /\ (Did("reallocate") /\ ~aborted /\ lastOp.ret # lastOp.ref /\ lastOp.ref > HEAP_BASE
              /\ ClassIdAt(atCall.mem, lastOp.ref - HEADER_SIZE) # HEADER_MAGIC) =>
             /\ FreedByLastOp = {}
             /\ (lastOp.ref - HEADER_SIZE) \in DOMAIN carved
             /\ (lastOp.ref - HEADER_SIZE) \notin freed

\* a reallocate has moved a registered heap object without freeing anything
C14_Witness ==
    /\ ~ASC_NO_ASSERT /\ Did("reallocate") /\ ~aborted
    /\ lastOp.ref > HEAP_BASE /\ lastOp.ret # lastOp.ref
    /\ ClassIdAt(atCall.mem, lastOp.ref - HEADER_SIZE) = U32Bytes(1)
    /\ FreedByLastOp = {}
    /\ (lastOp.ref - HEADER_SIZE) \notin freed

-----------------------------------------------------------------------------
(* C15 *)

\* the addresses of the block at header, as the allocator's books cv have it
BlockOf(cv, header) == header .. (header + cv[header] - 1)

\* the bytes at the addresses in region are the same in memories m1 and m2
SameBytes(m1, m2, region) == \A x \in region : m1[x] = m2[x]

-----------------------------------------------------------------------------
(* C16 *)

\* the payloadSize the object at ref had when the last call started
SizeAtCall(ref) == PayloadSizeAt(atCall.mem, ref - HEADER_SIZE)

\* the addresses of the payloadSize field of the object at ref
PayloadSizeField(ref) ==
    (ref - HEADER_SIZE + PAYLOADSIZE_OFFSET) .. (ref - HEADER_SIZE + PAYLOADSIZE_OFFSET + 3)

\* the last operation was a reallocate in place: same reference, no call to the
\* allocator, payloadSize set, the tail exposed by growth zeroed, nothing else written
ReallocatedInPlace ==
    LET ref == lastOp.ref
        n == lastOp.arg
        tail == (ref + SizeAtCall(ref)) .. (ref + n - 1)
    IN  /\ lastOp.ret = ref
        /\ events = << >>
        /\ PayloadSizeAt(mem, ref - HEADER_SIZE) = n
        /\ \A x \in tail : mem[x] = 0
        /\ SameBytes(mem, atCall.mem, DOMAIN mem \ (PayloadSizeField(ref) \cup tail))

\* the last operation was a reallocate into a block obtained for it: another
\* reference, in the heap, in a block of the new size class that was not in use
ReallocatedByMove ==
    LET newHeader == lastOp.ret - HEADER_SIZE
    IN  /\ lastOp.ret # lastOp.ref
        /\ lastOp.ret > HEAP_BASE
        /\ CallsOf(events, "allocate") = <<Event("allocate", newHeader, SizeClass(lastOp.arg))>>
        /\ newHeader \notin DOMAIN atCall.carved \/ newHeader \in atCall.freed
        /\ PayloadSizeAt(mem, newHeader) = lastOp.arg

\* C16 as claimed: reallocate works in place exactly when the new size class
\* equals the current one and the object is in the heap, and moves otherwise.
C16_InPlaceIffSameClass ==
    (Did("reallocate") /\ ~aborted) =>
        IF SizeClass(lastOp.arg) = SizeClass(SizeAtCall(lastOp.ref)) /\ lastOp.ref > HEAP_BASE
        THEN ReallocatedInPlace
        ELSE ReallocatedByMove

\* C16 amended: reallocate works in place exactly when the new size is not
\* larger than the current one, or the new size class equals the current one
\* and the object is in the heap; it moves otherwise.
C16_InPlaceIffFits ==
    (Did("reallocate") /\ ~aborted) =>
        IF \/ lastOp.arg <= SizeAtCall(lastOp.ref)
           \/ SizeClass(lastOp.arg) = SizeClass(SizeAtCall(lastOp.ref)) /\ lastOp.ref > HEAP_BASE
        THEN ReallocatedInPlace
        ELSE ReallocatedByMove

\* a heap object has been shrunk in place into a smaller size class
C16_Witness ==
    /\ Did("reallocate") /\ ~aborted
    /\ lastOp.ref > HEAP_BASE /\ lastOp.ret = lastOp.ref
    /\ SizeClass(lastOp.arg) < SizeClass(SizeAtCall(lastOp.ref))

-----------------------------------------------------------------------------
(* C17 *)

\* the blocks held from the backing allocator whose header says scratch
ScratchBlocksHeld == {b \in DOMAIN carved \ freed : ClassIdAt(mem, b) = HEADER_MAGIC}

\* the blocks of the scratch references the mutator holds
ScratchBlocksOwned == {r - HEADER_SIZE : r \in {x \in live : ClassIdAt(mem, x - HEADER_SIZE) = HEADER_MAGIC}}

\* C17: a reallocate that moves a scratch object calls free exactly once, on
\* the old block, and in every state the scratch blocks held from the backing
\* allocator are exactly the blocks of the scratch references the mutator holds.
C17_ScratchNeitherLeakedNorFreedTwice ==
    ~aborted =>
        /\ (Did("reallocate") /\ lastOp.ret # lastOp.ref
              /\ ClassIdAt(atCall.mem, lastOp.ref - HEADER_SIZE) = HEADER_MAGIC) =>
             /\ CallsOf(events, "free") = <<Event("free", lastOp.ref - HEADER_SIZE, 0)>>
             /\ freed = (atCall.freed \ {lastOp.ret - HEADER_SIZE}) \cup {lastOp.ref - HEADER_SIZE}
        /\ ScratchBlocksHeld = ScratchBlocksOwned
        /\ \A r \in live : (r - HEADER_SIZE) \in DOMAIN carved \ freed

\* a reallocate has moved a scratch object holding stored bytes and freed its old block
C17_Witness ==
    /\ Did("reallocate") /\ ~aborted /\ lastOp.ret # lastOp.ref
    /\ ClassIdAt(mem, lastOp.ret - HEADER_SIZE) = HEADER_MAGIC
    /\ (lastOp.ref - HEADER_SIZE) \in freed
    /\ ScratchBlocksHeld = {lastOp.ret - HEADER_SIZE}
    /\ mem[lastOp.ret] = PatternByte(1, 0)

-----------------------------------------------------------------------------
(* C18 *)

\* the addresses of the classId field of the object at ref
ClassIdField(ref) ==
    (ref - HEADER_SIZE + CLASSID_OFFSET) .. (ref - HEADER_SIZE + CLASSID_OFFSET + 3)

\* C18: after r = reallocate(ref, n) the header of r has payloadSize n and the
\* classId the header of ref had before; register returns its argument and
\* changes nothing but that object's classId; no other operation changes the
\* classId of an object that existed when it started.
C18_HeaderAcrossReallocateAndRegister ==
    /\ (Did("reallocate") /\ ~aborted) =>
         /\ PayloadSizeAt(mem, lastOp.ret - HEADER_SIZE) = lastOp.arg
         /\ ClassIdAt(mem, lastOp.ret - HEADER_SIZE) = ClassIdAt(atCall.mem, lastOp.ref - HEADER_SIZE)
    /\ (Did("register") /\ ~aborted) =>
         /\ lastOp.ret = lastOp.ref
         /\ ClassIdAt(mem, lastOp.ref - HEADER_SIZE) = U32Bytes(lastOp.arg)
         /\ SameBytes(mem, atCall.mem, DOMAIN mem \ ClassIdField(lastOp.ref))
    /\ ~Did("register") =>
         \A r \in atCall.live \cup {STATIC_REF} :
             ClassIdAt(mem, r - HEADER_SIZE) = ClassIdAt(atCall.mem, r - HEADER_SIZE)

\* a registered object holding stored bytes has been moved by reallocate and kept its classId
C18_Witness ==
    /\ Did("reallocate") /\ ~aborted /\ lastOp.ret # lastOp.ref
    /\ lastOp.ref > HEAP_BASE
    /\ ClassIdAt(mem, lastOp.ret - HEADER_SIZE) = U32Bytes(1)
    /\ PayloadSizeAt(mem, lastOp.ret - HEADER_SIZE) = HEADER_SIZE + 1
    /\ mem[lastOp.ret] = PatternByte(1, 0)

-----------------------------------------------------------------------------
(* C19 *)

\* C19: every heap object the mutator holds lies in a block that is handed
\* out, and its header and payload fit in that block.
C19_PayloadWithinBlock ==
    \A r \in live :
        r > HEAP_BASE =>
            /\ (r - HEADER_SIZE) \in DOMAIN carved
            /\ HEADER_SIZE + PayloadSizeAt(mem, r - HEADER_SIZE) <= carved[r - HEADER_SIZE]

\* an object that was shrunk, leaving a stored byte behind its payload, has grown in place over that byte
C19_Witness ==
    /\ Did("reallocate") /\ ~aborted
    /\ lastOp.ref > HEAP_BASE /\ lastOp.ret = lastOp.ref
    /\ SizeAtCall(lastOp.ref) > 0
    /\ SizeAtCall(lastOp.ref) < lastOp.arg
    /\ atCall.mem[lastOp.ref + SizeAtCall(lastOp.ref)] = PatternByte(1, SizeAtCall(lastOp.ref))
    /\ mem[lastOp.ref + SizeAtCall(lastOp.ref)] = 0

-----------------------------------------------------------------------------
(* C20 *)

\* the addresses below the heap: the null page and the data segment
StaticRegion == 0 .. (HEAP_BASE - 1)

====
